---- MODULE Spec2Model ----
(***************************************************************************)
(* A model of streamlit_app.py of OptionsFlowTracker: the snapshot store   *)
(* (SQLite table options_snapshots), the snapshot builder                  *)
(* fetch_options_data, the volume-change detector find_unusual_volume, the *)
(* alert sink send_alerts, the background scheduler background_fetch_job   *)
(* with start_scheduler, the manual "Fetch Snapshot Now" handler, and the  *)
(* result cache (st.cache_data) of fetch_options_data.                     *)
(*                                                                         *)
(* A DataFrame is a sequence of rows (records); an empty DataFrame is <<>>.*)
(* Decimal payload columns that the program only carries (Bid, Ask,        *)
(* current_price) are opaque string tokens; "NaN" is the missing value.    *)
(***************************************************************************)
EXTENDS Integers, Sequences, FiniteSets, TLC

VARIABLES
    new_df,        \* detector call: first argument of find_unusual_volume
    old_df,        \* detector call: second argument
    ratio_thr,     \* detector call: ratio threshold, a rational [num, den]
    diff_thr,      \* detector call: delta threshold
    unusual_df,    \* detector call: the returned frame
    det_pc,        \* detector call: "ready" before the call, "done" after
    fetch_env,     \* fetch call: what the quote source does for each symbol
    fetch_df,      \* fetch call: the frame fetch_options_data returned
    fetch_warnings,\* fetch call: the symbols st.warning was called for, in order
    fetch_pc,      \* fetch call: "ready" before the call, "done" after
    clock,         \* datetime.now(), in seconds
    store,         \* the rows of table options_snapshots, in rowid order
    scheduler_running, \* st.session_state.scheduler_running of each session
    bg,            \* the background_fetch_job thread started from each session
    fg,            \* the "Fetch Snapshot Now" handler of the foreground
    alert_log,     \* what send_alerts printed, call by call
    call,          \* store call: the last store_snapshot call and the store before it
    appended,      \* store call: the non-empty appends so far, [at, df], in order
    fetch_cache,   \* st.cache_data: the entry of fetch_options_data(SYMBOLS), or <<>>
    caller,        \* cache: each call site of fetch_options_data, [pc, hit, at, got]
    source_calls,  \* cache: how often the body of fetch_options_data has run
    last_fetch     \* cache: the body's last run since the last clear, [time, df], or <<>>

detVars == <<new_df, old_df, ratio_thr, diff_thr, unusual_df, det_pc>>

fetchVars == <<fetch_env, fetch_df, fetch_warnings, fetch_pc>>

pipeVars == <<clock, store, scheduler_running, bg, fg, alert_log>>

callVars == <<call, appended>>

cacheVars == <<fetch_cache, caller, source_calls, last_fetch>>

vars == <<detVars, fetchVars, pipeVars, callVars, cacheVars>>

----------------------------------------------------------------------------
(* Bounds *)

\* longest DataFrame handed to the detector
MaxRows == 2

\* most symbols of one fetch pass whose source behaviour differs from the rest
MaxDeviants == 2

\* the clock stops at MaxClock seconds
MaxClock == 10

\* the quote source delivers a non-empty frame only while the stored rows
\* and the frames on their way to the store are fewer than MaxSnapshots
MaxSnapshots == 2

\* non-empty appends of a run of store calls
MaxAppends == 2

----------------------------------------------------------------------------
(* Orders on the column values: pandas and SQLite compare strings byte by  *)
(* byte; the rank of a string is its position in that order.               *)

SYMBOLS == <<"AAPL", "TSLA", "MSFT", "AMZN", "SPY", "QQQ", "NVDA", "META", "GOOGL">>

SymbolOrder == <<"AAPL", "AMZN", "GOOGL", "META", "MSFT", "NVDA", "QQQ", "SPY", "TSLA">>

TypeOrder == <<"Call", "Put">>

ExpiryOrder == <<"2024-01-19", "2024-02-16">>

RankIn(order, s) == CHOOSE i \in 1..Len(order) : order[i] = s

Range(s) == {s[i] : i \in 1..Len(s)}

\* the join key of find_unusual_volume: keys = ["Symbol","Type","Expiry","Strike"]
KeyOf(row) == <<row.Symbol, row.Type, row.Expiry, row.Strike>>

\* lexicographic order of two join keys
KeyLess(a, b) ==
    LET ra == <<RankIn(SymbolOrder, a[1]), RankIn(TypeOrder, a[2]),
                RankIn(ExpiryOrder, a[3]), a[4]>>
        rb == <<RankIn(SymbolOrder, b[1]), RankIn(TypeOrder, b[2]),
                RankIn(ExpiryOrder, b[3]), b[4]>>
    IN  \E i \in 1..4 : /\ ra[i] < rb[i]
                        /\ \A j \in 1..(i-1) : ra[j] = rb[j]

RECURSIVE SortKeys(_)
\* the keys of a set as an ascending sequence
SortKeys(K) ==
    IF K = {} THEN <<>>
    ELSE LET m == CHOOSE k \in K : \A o \in K \ {k} : KeyLess(k, o)
         IN  <<m>> \o SortKeys(K \ {m})

RECURSIVE Flatten(_)
Flatten(ss) == IF ss = <<>> THEN <<>> ELSE Head(ss) \o Flatten(Tail(ss))

\* sort_values is called without kind=, so it sorts with "quicksort", which
\* does not fix the order of rows with equal values: a call leaves them in
\* the order they had ("kept") or not; of the other orders the model has the
\* opposite one ("reversed")
TieOrders == {"kept", "reversed"}

RECURSIVE InsertDesc(_, _, _, _)
\* insert row r after every row whose col is greater than r's and, when
\* ties are kept, after the rows whose col equals r's
InsertDesc(sorted, r, col, ties) ==
    IF sorted = <<>> THEN <<r>>
    ELSE IF \/ Head(sorted)[col] > r[col]
            \/ ties = "kept" /\ Head(sorted)[col] = r[col]
         THEN <<Head(sorted)>> \o InsertDesc(Tail(sorted), r, col, ties)
         ELSE <<r>> \o sorted

RECURSIVE SortValuesDesc(_, _, _)
\* df.sort_values(col, ascending=False), rows of equal col in the order ties
SortValuesDesc(df, col, ties) ==
    IF df = <<>> THEN <<>>
    ELSE InsertDesc(SortValuesDesc(SubSeq(df, 1, Len(df) - 1), col, ties),
                    df[Len(df)], col, ties)

----------------------------------------------------------------------------
(* find_unusual_volume *)

\* pd.merge(new_df, old_df, on=keys, how="outer", suffixes=("", "_old")),
\* the rows of one key: left-only, right-only, or every (left, right) pair
MergeKey(new, old, k) ==
    LET L == SelectSeq(new, LAMBDA r : KeyOf(r) = k)
        R == SelectSeq(old, LAMBDA r : KeyOf(r) = k)
        Both(l, r) == [Symbol |-> l.Symbol, Type |-> l.Type, Expiry |-> l.Expiry,
                       Strike |-> l.Strike, Volume |-> {l.Volume},
                       Volume_old |-> {r.Volume}, Bid |-> l.Bid, Ask |-> l.Ask,
                       current_price |-> l.current_price]
        LeftOnly(l) == [Symbol |-> l.Symbol, Type |-> l.Type, Expiry |-> l.Expiry,
                        Strike |-> l.Strike, Volume |-> {l.Volume},
                        Volume_old |-> {}, Bid |-> l.Bid, Ask |-> l.Ask,
                        current_price |-> l.current_price]
        RightOnly(r) == [Symbol |-> r.Symbol, Type |-> r.Type, Expiry |-> r.Expiry,
                         Strike |-> r.Strike, Volume |-> {},
                         Volume_old |-> {r.Volume}, Bid |-> "NaN", Ask |-> "NaN",
                         current_price |-> "NaN"]
    IN  IF R = <<>> THEN [i \in 1..Len(L) |-> LeftOnly(L[i])]
        ELSE IF L = <<>> THEN [i \in 1..Len(R) |-> RightOnly(R[i])]
        ELSE Flatten([i \in 1..Len(L) |-> [j \in 1..Len(R) |-> Both(L[i], R[j])]])

\* the outer join: the union of the keys in ascending order; a missing
\* side's Volume is the empty set (NaN)
Merge(new, old) ==
    LET ks == SortKeys({KeyOf(new[i]) : i \in 1..Len(new)}
                       \cup {KeyOf(old[i]) : i \in 1..Len(old)})
    IN  Flatten([i \in 1..Len(ks) |-> MergeKey(new, old, ks[i])])

\* merged[col].fillna(0)
FillNa0(v) == IF v = {} THEN 0 ELSE CHOOSE x \in v : TRUE

\* a slip: the size of the change, whatever its direction
VolumeDiffAbs(volume, volume_old) ==
    IF volume >= volume_old THEN volume - volume_old ELSE volume_old - volume

\* a slip: the previous volume is not subtracted
VolumeDiffNoSub(volume, volume_old) == volume

\* merged["Volume_Diff"] = merged["Volume"] - merged["Volume_old"]
VolumeDiff(volume, volume_old) == volume - volume_old

\* a slip: a zero previous volume gives ratio 0 instead of +infinity
ratio_funcZero(volume, volume_old) ==
    IF volume_old > 0
    THEN [inf |-> FALSE, num |-> volume, den |-> volume_old]
    ELSE [inf |-> FALSE, num |-> 0, den |-> 1]

\* ratio_func: Volume / Volume_old as an unreduced fraction, or +infinity
ratio_func(volume, volume_old) ==
    IF volume_old > 0
    THEN [inf |-> FALSE, num |-> volume, den |-> volume_old]
    ELSE [inf |-> TRUE, num |-> 0, den |-> 1]

\* ratio >= thr, for a ratio of ratio_func and a rational threshold
RatioGE(ratio, thr) ==
    ratio.inf \/ ratio.num * thr.den >= thr.num * ratio.den

\* a slip: either threshold is enough (| instead of &)
ConditionOr(row, r_thr, d_thr) ==
    RatioGE(row.Volume_Ratio, r_thr) \/ row.Volume_Diff >= d_thr

\* (merged["Volume_Ratio"] >= ratio_thr) & (merged["Volume_Diff"] >= diff_thr)
Condition(row, r_thr, d_thr) ==
    RatioGE(row.Volume_Ratio, r_thr) /\ row.Volume_Diff >= d_thr

\* a merged row after the fillna, Volume_Diff and Volume_Ratio assignments
Computed(m) ==
    LET v == FillNa0(m.Volume)
        vo == FillNa0(m.Volume_old)
    IN  [Symbol |-> m.Symbol, Type |-> m.Type, Expiry |-> m.Expiry,
         Strike |-> m.Strike, Volume_old |-> vo, Volume |-> v,
         Volume_Diff |-> VolumeDiff(v, vo), Volume_Ratio |-> ratio_func(v, vo),
         Bid |-> m.Bid, Ask |-> m.Ask, current_price |-> m.current_price]

\* a slip: only new_df is tested
EitherEmptyNewOnly(new, old) == new = <<>>

\* the guard of find_unusual_volume: new_df.empty or old_df.empty
EitherEmpty(new, old) == new = <<>> \/ old = <<>>

\* lines 171-195: unusual, the joined rows that meet the condition, in the
\* order of the join; empty when either frame is
Unusual(new, old, r_thr, d_thr) ==
    IF EitherEmpty(new, old) THEN <<>>
    ELSE LET merged == Merge(new, old)
             rows == [i \in 1..Len(merged) |-> Computed(merged[i])]
         IN  SelectSeq(rows, LAMBDA row : Condition(row, r_thr, d_thr))

\* line 203: the rows of unusual sorted by Volume_Diff, descending
SortedUnusual(unusual, ties) == SortValuesDesc(unusual, "Volume_Diff", ties)

find_unusual_volume(new, old, r_thr, d_thr, ties) ==
    SortedUnusual(Unusual(new, old, r_thr, d_thr), ties)

----------------------------------------------------------------------------
(* fetch_options_data *)

\* What yfinance does for one symbol.  info: ticker.info gives the price
\* ("quote"), has no regularMarketPrice ("none") or raises ("raise");
\* hist: ticker.history gives a close ("close"), is empty ("empty") or raises;
\* options: ticker.options raises, or lists expiries; chains[i] is
\* ticker.option_chain of the i-th expiry: it raises, or has calls and puts.
ChainRow(strike, volume) == [strike |-> strike, volume |-> volume,
                             bid |-> "1.00", ask |-> "1.10"]

Chain(calls, puts) == [raises |-> FALSE, calls |-> calls, puts |-> puts]

ChainRaises == [raises |-> TRUE, calls |-> <<>>, puts |-> <<>>]

Source(info, hist, options_raise, expiries, chains) ==
    [info |-> info, hist |-> hist, options_raise |-> options_raise,
     expiries |-> expiries, chains |-> chains]

\* lines 138-142: the price of the rows, or "raise"
CurrentPrice(src) ==
    IF src.info = "raise" THEN "raise"
    ELSE IF src.info = "quote" THEN "185.00"
    ELSE IF src.hist = "raise" THEN "raise"
    ELSE IF src.hist = "close" THEN "184.00"
    ELSE "NaN"

\* lines 149-160: the rows appended for one option chain, calls then puts
ChainRows(symbol, expiry, chain, price) ==
    LET Quote(opt_type, row) ==
            [Symbol |-> symbol, Type |-> opt_type, Expiry |-> expiry,
             Strike |-> row.strike, Volume |-> row.volume, Bid |-> row.bid,
             Ask |-> row.ask, current_price |-> price]
    IN  [i \in 1..Len(chain.calls) |-> Quote("Call", chain.calls[i])]
        \o [i \in 1..Len(chain.puts) |-> Quote("Put", chain.puts[i])]

RECURSIVE FetchExpiries(_, _, _, _, _)
\* lines 147-160 from expiry i on: all_data grows chain by chain until a
\* chain raises; the rows appended before the raise stay in all_data
FetchExpiries(all_data, symbol, src, price, i) ==
    IF i > Len(src.expiries) THEN [all_data |-> all_data, raised |-> FALSE]
    ELSE IF src.chains[i].raises THEN [all_data |-> all_data, raised |-> TRUE]
    ELSE FetchExpiries(all_data \o ChainRows(symbol, src.expiries[i], src.chains[i], price),
                       symbol, src, price, i + 1)

\* the body of the for loop for one symbol (lines 136-163): the new all_data
\* and whether the except branch ran (one st.warning)
FetchSymbol(all_data, symbol, src) ==
    LET price == CurrentPrice(src)
    IN  IF price = "raise" THEN [all_data |-> all_data, raised |-> TRUE]
        ELSE IF src.options_raise THEN [all_data |-> all_data, raised |-> TRUE]
        ELSE IF src.expiries = <<>> THEN [all_data |-> all_data, raised |-> FALSE]
        ELSE FetchExpiries(all_data, symbol, src, price, 1)

RECURSIVE FetchLoopStopsAtRaise(_, _, _, _, _)
\* a slip: the try is around the whole loop, the first raise ends the pass
FetchLoopStopsAtRaise(symbols, env, i, all_data, warnings) ==
    IF i > Len(symbols) THEN [all_data |-> all_data, warnings |-> warnings]
    ELSE LET r == FetchSymbol(all_data, symbols[i], env[symbols[i]])
         IN  IF r.raised
             THEN [all_data |-> r.all_data, warnings |-> Append(warnings, symbols[i])]
             ELSE FetchLoopStopsAtRaise(symbols, env, i + 1, r.all_data, warnings)

RECURSIVE FetchLoop(_, _, _, _, _)
\* the for loop over symbols from index i on
FetchLoop(symbols, env, i, all_data, warnings) ==
    IF i > Len(symbols) THEN [all_data |-> all_data, warnings |-> warnings]
    ELSE LET r == FetchSymbol(all_data, symbols[i], env[symbols[i]])
         IN  FetchLoop(symbols, env, i + 1, r.all_data,
                       IF r.raised THEN Append(warnings, symbols[i]) ELSE warnings)

\* fetch_options_data(symbols) against the source behaviour env: the frame,
\* sorted by Volume descending, and the warnings
fetch_options_data(symbols, env, ties) ==
    LET r == FetchLoop(symbols, env, 1, <<>>, <<>>)
    IN  [df |-> SortValuesDesc(r.all_data, "Volume", ties), warnings |-> r.warnings]

----------------------------------------------------------------------------
(* The snapshot builder on its own: one fetch pass over SYMBOLS where all  *)
(* symbols behave alike except at most MaxDeviants of them.                *)

OneCall(volume) == Chain(<<ChainRow(150, volume)>>, <<>>)

\* one expiry with one call and one put
SrcOk == Source("quote", "close", FALSE, <<"2024-01-19">>,
                <<Chain(<<ChainRow(150, 100)>>, <<ChainRow(150, 500)>>)>>)

\* no direct quote: the price falls back to the daily close
SrcClose == Source("none", "close", FALSE, <<"2024-01-19">>, <<OneCall(2500)>>)

SrcInfoRaises == Source("raise", "close", FALSE, <<>>, <<>>)

SrcOptionsRaises == Source("quote", "close", TRUE, <<>>, <<>>)

\* the first expiry's chain is delivered, the second expiry's chain raises
SrcSecondChainRaises ==
    Source("quote", "close", FALSE, <<"2024-01-19", "2024-02-16">>,
           <<OneCall(100), ChainRaises>>)

SrcNoOptions == Source("quote", "close", FALSE, <<>>, <<>>)

BaseSources == {SrcOk, SrcInfoRaises, SrcNoOptions}

DeviantSources == {SrcOk, SrcClose, SrcInfoRaises, SrcOptionsRaises,
                   SrcSecondChainRaises, SrcNoOptions}

SymbolSet == Range(SYMBOLS)

FetchEnvs ==
    {[s \in SymbolSet |-> IF s \in DOMAIN dev THEN dev[s] ELSE base] :
        <<base, dev>> \in
            BaseSources \X UNION {[D -> DeviantSources] :
                                    D \in {X \in SUBSET SymbolSet :
                                             Cardinality(X) <= MaxDeviants}}}

----------------------------------------------------------------------------
(* The snapshot store: table options_snapshots of options_data.db *)

\* digits of a timestamp string in the model
TsWidth == 2

RECURSIVE Digits(_, _)
\* n as w decimal digits, zero padded
Digits(n, w) == IF w = 0 THEN <<>> ELSE Append(Digits(n \div 10, w - 1), n % 10)

\* datetime.now().strftime("%Y-%m-%d %H:%M:%S"): fixed width, zero padded,
\* most significant field first; a string is its sequence of characters
Strftime(seconds) == Digits(seconds, TsWidth)

\* a < b for two strings, byte by byte (SQLite's BINARY collation)
StrLess(a, b) ==
    \E i \in 1..Len(b) :
        /\ \A j \in 1..(i-1) : j <= Len(a) /\ a[j] = b[j]
        /\ i > Len(a) \/ a[i] < b[i]

\* the INSERT of to_sql: DataFrame column to table column
ToStoreRow(row, snapshot_time) ==
    [snapshot_time |-> snapshot_time, symbol |-> row.Symbol, type |-> row.Type,
     expiry |-> row.Expiry, strike |-> row.Strike, volume |-> row.Volume,
     bid |-> row.Bid, ask |-> row.Ask, current_price |-> row.current_price]

\* a slip: if_exists="replace" drops the table's rows before the insert
store_snapshotReplace(st, df, snapshot_time) ==
    IF df = <<>> THEN [store |-> st, raised |-> FALSE]
    ELSE [store |-> [i \in 1..Len(df) |-> ToStoreRow(df[i], snapshot_time)],
          raised |-> FALSE]

\* a slip: no df.empty guard; selecting the columns of a frame without
\* columns raises KeyError
store_snapshotNoGuard(st, df, snapshot_time) ==
    IF df = <<>> THEN [store |-> st, raised |-> TRUE]
    ELSE [store |-> st \o [i \in 1..Len(df) |-> ToStoreRow(df[i], snapshot_time)],
          raised |-> FALSE]

\* store_snapshot(df, snapshot_time): nothing for an empty frame, otherwise
\* all rows are appended in one transaction
store_snapshot(st, df, snapshot_time) ==
    IF df = <<>> THEN [store |-> st, raised |-> FALSE]
    ELSE [store |-> st \o [i \in 1..Len(df) |-> ToStoreRow(df[i], snapshot_time)],
          raised |-> FALSE]

RECURSIVE MaxStr(_)
\* SELECT MAX(col): the greatest string of a non-empty sequence
MaxStr(ss) ==
    IF Len(ss) = 1 THEN ss[1]
    ELSE LET m == MaxStr(Tail(ss))
         IN  IF StrLess(m, Head(ss)) THEN Head(ss) ELSE m

\* a slip: the snapshot_time of the row inserted last
get_latest_snapshot_timeLastRow(st) ==
    IF st = <<>> THEN <<>> ELSE st[Len(st)].snapshot_time

\* get_latest_snapshot_time(): MAX(snapshot_time), or None; None and the empty
\* string are both <<>> (row[0] if row and row[0] else None)
get_latest_snapshot_time(st) ==
    IF st = <<>> THEN <<>>
    ELSE MaxStr([i \in 1..Len(st) |-> st[i].snapshot_time])

\* the SELECT list of get_snapshot_data: table column AS DataFrame column
FromStoreRow(r) ==
    [Symbol |-> r.symbol, Type |-> r.type, Expiry |-> r.expiry,
     Strike |-> r.strike, Volume |-> r.volume, Bid |-> r.bid, Ask |-> r.ask,
     current_price |-> r.current_price]

\* get_snapshot_data(snapshot_time)
get_snapshot_data(st, snapshot_time) ==
    LET hit == SelectSeq(st, LAMBDA r : r.snapshot_time = snapshot_time)
    IN  [i \in 1..Len(hit) |-> FromStoreRow(hit[i])]

\* get_all_snapshots(): every row, snapshot_time and the aliased columns
get_all_snapshots(st) ==
    [i \in 1..Len(st) |->
        [snapshot_time |-> st[i].snapshot_time, Symbol |-> st[i].symbol,
         Type |-> st[i].type, Expiry |-> st[i].expiry, Strike |-> st[i].strike,
         Volume |-> st[i].volume, Bid |-> st[i].bid, Ask |-> st[i].ask,
         current_price |-> st[i].current_price]]

----------------------------------------------------------------------------
(* send_alerts *)

\* limited = unusual_df.head(5)
AlertTop == 5

Head5(df) == SubSeq(df, 1, IF Len(df) < AlertTop THEN Len(df) ELSE AlertTop)

\* a slip: the whole table is printed
send_alertsNoLimit(log, by, df) ==
    IF df = <<>>
    THEN Append(log, [by |-> by, alert |-> FALSE, table |-> <<>>])
    ELSE Append(log, [by |-> by, alert |-> TRUE, table |-> df])

\* send_alerts(unusual_df) called from by: what it prints
send_alerts(log, by, df) ==
    IF df = <<>>
    THEN Append(log, [by |-> by, alert |-> FALSE, table |-> <<>>])
    ELSE Append(log, [by |-> by, alert |-> TRUE, table |-> Head5(df)])

\* lines 239-240: the scheduler calls send_alerts for a non-empty result only
SchedulerAlerts(log, unusual) ==
    IF unusual # <<>> THEN send_alerts(log, "scheduler", unusual) ELSE log

\* line 365: the manual fetch calls send_alerts whatever the result
ManualAlerts(log, unusual) == send_alerts(log, "manual", unusual)

----------------------------------------------------------------------------
(* The pipelines: background_fetch_job, start_scheduler and the handler of *)
(* the "Fetch Snapshot Now" button                                         *)

\* the browser sessions of the process; each has its own st.session_state
Sessions == {"tab1", "tab2"}

\* ratio_thr = 2.0 and diff_thr = 1000 of both call sites
DefaultRatioThr == [num |-> 2, den |-> 1]

DefaultDiffThr == 1000

\* the locals of one pipeline run, as they are where no frame is held: when
\* a run ends its locals are dead (each is assigned again before it is
\* read).  error: the run ended by an exception
Locals(pc, error) ==
    [pc |-> pc, error |-> error, new_snapshot_df |-> <<>>, now_str |-> <<>>,
     old_time |-> <<>>, old_df |-> <<>>]

\* what the quote source does during one fetch pass of a pipeline: AAPL has
\* one call of the given volume, no other symbol has options
OnlyAapl(volume) ==
    [s \in SymbolSet |->
        IF s = "AAPL"
        THEN Source("quote", "close", FALSE, <<"2024-01-19">>, <<OneCall(volume)>>)
        ELSE SrcNoOptions]

QuietEnvs == {[s \in SymbolSet |-> SrcNoOptions], [s \in SymbolSet |-> SrcInfoRaises]}

BusyEnvs == {OnlyAapl(100), OnlyAapl(2500)}

\* the frames the pipelines hold for the store
InFlight ==
    Cardinality({s \in Sessions : bg[s].new_snapshot_df # <<>>})
    + (IF fg.new_snapshot_df # <<>> THEN 1 ELSE 0)

\* fetch_options_data(SYMBOLS) against these behaviours
QuietFrames ==
    {fetch_options_data(SYMBOLS, env, ties).df : env \in QuietEnvs, ties \in TieOrders}

BusyFrames ==
    {fetch_options_data(SYMBOLS, env, ties).df : env \in BusyEnvs, ties \in TieOrders}

\* the frames a fetch pass can return now
PipelineFrames ==
    IF Len(store) + InFlight < MaxSnapshots THEN QuietFrames \cup BusyFrames
    ELSE QuietFrames

\* the process starts 9 seconds into the modelled time, so that the
\* timestamps "09" and "10" differ in both digits
InitPipeline ==
    /\ clock = 9
    /\ store = <<>>
    /\ scheduler_running = [s \in Sessions |-> FALSE]
    /\ bg = [s \in Sessions |-> Locals("none", FALSE)]
    /\ fg = Locals("idle", FALSE)
    /\ alert_log = <<>>

\* a second passes
Tick ==
    /\ clock < MaxClock
    /\ clock' = clock + 1
    /\ UNCHANGED <<detVars, fetchVars, callVars, cacheVars, store, scheduler_running, bg, fg, alert_log>>

\* a slip: no guard, every call starts a thread
StartSchedulerNoGuard(s) ==
    /\ scheduler_running' = [scheduler_running EXCEPT ![s] = TRUE]
    /\ bg' = [bg EXCEPT ![s] = Locals("fetch", FALSE)]
    /\ UNCHANGED <<detVars, fetchVars, callVars, cacheVars, clock, store, fg, alert_log>>

\* start_scheduler() in session s: the guard is the session's own flag
StartScheduler(s) ==
    /\ ~scheduler_running[s]
    /\ scheduler_running' = [scheduler_running EXCEPT ![s] = TRUE]
    /\ bg' = [bg EXCEPT ![s] = Locals("fetch", FALSE)]
    /\ UNCHANGED <<detVars, fetchVars, callVars, cacheVars, clock, store, fg, alert_log>>

\* a slip: no test of new_snapshot_df.empty, the run goes on with any frame
AfterFetchNoGuard(df, done_pc) ==
    [Locals("latest", FALSE) EXCEPT !.new_snapshot_df = df,
                                    !.now_str = Strftime(clock)]

\* lines 224-228 / 341-345: the cache is cleared, the frame is fetched and
\* now_str is read; an empty frame ends the run (its locals are not read
\* again).  The frame is the quote source's or, when the other pipeline
\* fetched between this one's clear and its call, the cached one: one of
\* PipelineFrames either way
AfterFetch(df, done_pc) ==
    IF df = <<>> THEN Locals(done_pc, FALSE)
    ELSE [Locals("latest", FALSE) EXCEPT !.new_snapshot_df = df,
                                         !.now_str = Strftime(clock)]

\* lines 229-231 / 348-350: old_time = get_latest_snapshot_time()
AfterLatest(l) ==
    LET t == get_latest_snapshot_time(store)
    IN  [l EXCEPT !.old_time = t, !.old_df = <<>>,
                  !.pc = IF t # <<>> THEN "load" ELSE "store"]

\* lines 232 / 351: old_df = get_snapshot_data(old_time)
AfterLoad(l) ==
    [l EXCEPT !.old_df = get_snapshot_data(store, l.old_time), !.pc = "store"]

\* lines 236-238 / 356-358: the frame the detector returns for a run
Detected(l, ties) ==
    find_unusual_volume(l.new_snapshot_df, l.old_df, DefaultRatioThr, DefaultDiffThr,
                        ties)

BgFetch(s) ==
    /\ bg[s].pc = "fetch"
    /\ \E df \in PipelineFrames : bg' = [bg EXCEPT ![s] = AfterFetch(df, "sleep")]
    /\ UNCHANGED <<detVars, fetchVars, callVars, cacheVars, clock, store, scheduler_running, fg, alert_log>>

BgLatest(s) ==
    /\ bg[s].pc = "latest"
    /\ bg' = [bg EXCEPT ![s] = AfterLatest(bg[s])]
    /\ UNCHANGED <<detVars, fetchVars, callVars, cacheVars, clock, store, scheduler_running, fg, alert_log>>

BgLoad(s) ==
    /\ bg[s].pc = "load"
    /\ bg' = [bg EXCEPT ![s] = AfterLoad(bg[s])]
    /\ UNCHANGED <<detVars, fetchVars, callVars, cacheVars, clock, store, scheduler_running, fg, alert_log>>

\* line 234: store_snapshot(new_snapshot_df, now_str)
BgStore(s) ==
    /\ bg[s].pc = "store"
    /\ LET r == store_snapshot(store, bg[s].new_snapshot_df, bg[s].now_str)
       IN  /\ store' = r.store
           /\ bg' = [bg EXCEPT ![s].pc = IF r.raised THEN "sleep" ELSE "detect",
                               ![s].error = r.raised]
    /\ UNCHANGED <<detVars, fetchVars, callVars, cacheVars, clock, scheduler_running, fg, alert_log>>

\* lines 236-242: the detector, and send_alerts for a non-empty result only
BgDetect(s) ==
    /\ bg[s].pc = "detect"
    /\ bg' = [bg EXCEPT ![s] = Locals("sleep", FALSE)]
    /\ alert_log' \in {SchedulerAlerts(alert_log, Detected(bg[s], ties)) :
                           ties \in TieOrders}
    /\ UNCHANGED <<detVars, fetchVars, callVars, cacheVars, clock, store, scheduler_running, fg>>

\* a slip: the exception leaves the while loop and the thread ends
BgRaiseEndsThread(s) ==
    /\ bg[s].pc \in {"fetch", "latest", "load", "store", "detect"}
    /\ bg' = [bg EXCEPT ![s] = Locals("dead", TRUE)]
    /\ UNCHANGED <<detVars, fetchVars, callVars, cacheVars, clock, store, scheduler_running, fg, alert_log>>

\* lines 246-247: a call of the cycle raises (the fetch, a store query, the
\* append, the detector or the alert sink); the except branch prints the
\* error and the loop goes on to its sleep.  A failed append is rolled back.
BgRaise(s) ==
    /\ bg[s].pc \in {"fetch", "latest", "load", "store", "detect"}
    /\ bg' = [bg EXCEPT ![s] = Locals("sleep", TRUE)]
    /\ UNCHANGED <<detVars, fetchVars, callVars, cacheVars, clock, store, scheduler_running, fg, alert_log>>

\* lines 249-250 and the next turn of while True
BgSleep(s) ==
    /\ bg[s].pc = "sleep"
    /\ bg' = [bg EXCEPT ![s] = Locals("fetch", FALSE)]
    /\ UNCHANGED <<detVars, fetchVars, callVars, cacheVars, clock, store, scheduler_running, fg, alert_log>>

\* line 340: the button is pressed; one handler runs at a time
FgClick ==
    /\ fg.pc = "idle"
    /\ fg' = Locals("fetch", FALSE)
    /\ UNCHANGED <<detVars, fetchVars, callVars, cacheVars, clock, store, scheduler_running, bg, alert_log>>

FgFetch ==
    /\ fg.pc = "fetch"
    /\ \E df \in PipelineFrames : fg' = AfterFetch(df, "idle")
    /\ UNCHANGED <<detVars, fetchVars, callVars, cacheVars, clock, store, scheduler_running, bg, alert_log>>

FgLatest ==
    /\ fg.pc = "latest"
    /\ fg' = AfterLatest(fg)
    /\ UNCHANGED <<detVars, fetchVars, callVars, cacheVars, clock, store, scheduler_running, bg, alert_log>>

FgLoad ==
    /\ fg.pc = "load"
    /\ fg' = AfterLoad(fg)
    /\ UNCHANGED <<detVars, fetchVars, callVars, cacheVars, clock, store, scheduler_running, bg, alert_log>>

\* line 353: store_snapshot(new_snapshot, now_str)
FgStore ==
    /\ fg.pc = "store"
    /\ LET r == store_snapshot(store, fg.new_snapshot_df, fg.now_str)
       IN  /\ store' = r.store
           /\ fg' = [fg EXCEPT !.pc = IF r.raised THEN "idle" ELSE "detect",
                               !.error = r.raised]
    /\ UNCHANGED <<detVars, fetchVars, callVars, cacheVars, clock, scheduler_running, bg, alert_log>>

\* lines 356-365: the detector, and send_alerts whatever the result
FgDetect ==
    /\ fg.pc = "detect"
    /\ fg' = Locals("idle", FALSE)
    /\ alert_log' \in {ManualAlerts(alert_log, Detected(fg, ties)) :
                           ties \in TieOrders}
    /\ UNCHANGED <<detVars, fetchVars, callVars, cacheVars, clock, store, scheduler_running, bg>>

\* a call of the handler raises: nothing catches it, the script run ends
FgRaise ==
    /\ fg.pc \in {"fetch", "latest", "load", "store", "detect"}
    /\ fg' = Locals("idle", FALSE)
    /\ UNCHANGED <<detVars, fetchVars, callVars, cacheVars, clock, store, scheduler_running, bg, alert_log>>

BgStep(s) ==
    \/ BgFetch(s) \/ BgLatest(s) \/ BgLoad(s) \/ BgStore(s) \/ BgRaise(s)
    \/ BgDetect(s) \/ BgSleep(s)

FgStep == FgClick \/ FgFetch \/ FgLatest \/ FgLoad \/ FgStore \/ FgDetect \/ FgRaise

NextPipeline ==
    \/ Tick
    \/ \E s \in Sessions : StartScheduler(s)
    \/ \E s \in Sessions : BgStep(s)
    \/ FgStep

NoCall == [op |-> "none", df |-> <<>>, raised |-> FALSE, before |-> <<>>]

\* the store call's variables while another operation is studied
CallIdle == call = NoCall /\ appended = <<>>

\* the detector call's variables while another operation is studied
DetectIdle ==
    /\ new_df = <<>> /\ old_df = <<>>
    /\ ratio_thr = [num |-> 2, den |-> 1] /\ diff_thr = 1000
    /\ unusual_df = <<>> /\ det_pc = "idle"

\* the fetch call's variables while another operation is studied
FetchIdle ==
    /\ fetch_env = <<>>
    /\ fetch_df = <<>> /\ fetch_warnings = <<>> /\ fetch_pc = "idle"

\* the call sites of fetch_options_data: line 225 and line 342
Callers == {"scheduler", "manual"}

NoCaller == [pc |-> "idle", hit |-> FALSE, at |-> 0, got |-> <<>>]

\* the cache's variables while another operation is studied
CacheIdle ==
    /\ fetch_cache = <<>> /\ caller = [c \in Callers |-> NoCaller]
    /\ source_calls = 0 /\ last_fetch = <<>>

Next == NextPipeline

Init == InitPipeline /\ DetectIdle /\ FetchIdle /\ CallIdle /\ CacheIdle

Spec == Init /\ [][Next]_vars

\* the scheduler thread of a session keeps taking steps once it is started
Fairness == \A s \in Sessions : WF_vars(BgStep(s))

FairSpec == Spec /\ Fairness

----------------------------------------------------------------------------
(* The result cache of fetch_options_data: @st.cache_data(ttl=300), one    *)
(* cache for the process.  Both call sites clear it and then call the      *)
(* function; the two steps of one call site interleave with the other      *)
(* call site's.                                                            *)

\* @st.cache_data(ttl=300), in seconds
CacheTtl == 300

\* the cache's runs last MaxWindows times the ttl
MaxWindows == 2

\* the body of fetch_options_data runs at most MaxSourceCalls times
MaxSourceCalls == 3

\* the seconds at which the cache's runs take their steps: the start of
\* the process and every whole number of windows later, each with the second
\* before and the second after
CacheInstants ==
    {t \in {9 + w * CacheTtl + d : w \in 0..MaxWindows, d \in {-1, 0, 1}} : t >= 9}

\* the entry stored for a value computed at now: it expires ttl later
CacheEntry(value, now) == [value |-> value, expires |-> now + CacheTtl]

\* a slip: the entry is still served at the second it expires
CacheHasInclusive(cache, now) == cache # <<>> /\ now <= cache.expires

\* the lookup of the cache: an entry exists and has not expired
CacheHas(cache, now) == cache # <<>> /\ now < cache.expires

\* the frames the body of fetch_options_data can return to the cache
CacheFrames == QuietFrames \cup BusyFrames

CacheTick ==
    /\ \E t \in CacheInstants : t > clock /\ clock' = t
    /\ UNCHANGED <<detVars, fetchVars, callVars, cacheVars, store,
                   scheduler_running, bg, fg, alert_log>>

\* lines 224 / 341: fetch_options_data.clear()
CacheClear(c) ==
    /\ caller[c].pc = "idle"
    /\ fetch_cache' = <<>>
    /\ last_fetch' = <<>>
    /\ caller' = [caller EXCEPT ![c].pc = "cleared"]
    /\ UNCHANGED <<detVars, fetchVars, callVars, pipeVars, source_calls>>

\* lines 225 / 342: fetch_options_data(SYMBOLS) through the cache: a live
\* entry is returned, otherwise the body runs and its result is stored
CachedCall(c) ==
    /\ caller[c].pc = "cleared"
    /\ IF CacheHas(fetch_cache, clock)
       THEN /\ caller' = [caller EXCEPT ![c] = [pc |-> "idle", hit |-> TRUE,
                                                at |-> clock,
                                                got |-> fetch_cache.value]]
            /\ UNCHANGED <<fetch_cache, source_calls, last_fetch>>
       ELSE /\ source_calls < MaxSourceCalls
            /\ \E df \in CacheFrames :
                  /\ fetch_cache' = CacheEntry(df, clock)
                  /\ last_fetch' = [time |-> clock, df |-> df]
                  /\ caller' = [caller EXCEPT ![c] = [pc |-> "idle", hit |-> FALSE,
                                                      at |-> clock, got |-> df]]
            /\ source_calls' = source_calls + 1
    /\ UNCHANGED <<detVars, fetchVars, callVars, pipeVars>>

InitCache ==
    /\ InitPipeline /\ DetectIdle /\ FetchIdle /\ CallIdle /\ CacheIdle

NextCache ==
    \/ CacheTick
    \/ \E c \in Callers : CacheClear(c)
    \/ \E c \in Callers : CachedCall(c)

SpecCache == InitCache /\ [][NextCache]_vars

----------------------------------------------------------------------------
(* The store on its own: store_snapshot called with any frame, empty       *)
(* frames included, under timestamps in any order.                         *)

StoreRow(opt_type, volume) ==
    [Symbol |-> "AAPL", Type |-> opt_type, Expiry |-> "2024-01-19", Strike |-> 150,
     Volume |-> volume, Bid |-> "1.00", Ask |-> "1.10", current_price |-> "185.00"]

StoreFrames == {<<>>, <<StoreRow("Call", 100)>>, <<StoreRow("Call", 2500)>>,
                <<StoreRow("Call", 2500), StoreRow("Put", 100)>>}

\* the seconds at which store calls are made
CallTimes == 8..MaxClock

InitStore ==
    /\ InitPipeline /\ DetectIdle /\ FetchIdle /\ CallIdle /\ CacheIdle

\* store_snapshot(df, Strftime(at))
CallStoreSnapshot ==
    \E df \in StoreFrames, at \in CallTimes :
        /\ df # <<>> => Len(appended) < MaxAppends
        /\ LET r == store_snapshot(store, df, Strftime(at))
           IN  /\ store' = r.store
               /\ call' = [op |-> "store_snapshot", df |-> df, raised |-> r.raised,
                           before |-> store]
        /\ appended' = IF df # <<>> THEN Append(appended, [at |-> at, df |-> df])
                       ELSE appended
        /\ UNCHANGED <<detVars, fetchVars, cacheVars, clock, scheduler_running, bg, fg, alert_log>>

NextStore == CallStoreSnapshot

SpecStore == InitStore /\ [][NextStore]_vars

----------------------------------------------------------------------------
(* The detector on its own: every pair of frames of at most MaxRows rows   *)
(* over two contracts (the first frame sorted by Volume), with the         *)
(* thresholds of the call sites and the boundary thresholds.               *)

DetectVolumes == {0, 100, 500, 2500}

DetectRows ==
    [Symbol : {"AAPL"}, Type : {"Call", "Put"}, Expiry : {"2024-01-19"},
     Strike : {150}, Volume : DetectVolumes, Bid : {"1.00"}, Ask : {"1.10"},
     current_price : {"185.00"}]

SeqsUpTo(S, n) == UNION {[1..k -> S] : k \in 0..n}

DetectFrames == SeqsUpTo(DetectRows, MaxRows)

\* the first argument is at both call sites the frame fetch_options_data
\* returned, which is sorted by Volume, descending (line 167); the second
\* comes from the store, where two appends under one timestamp need not
\* leave the rows sorted
DetectNewFrames ==
    {df \in DetectFrames :
        \A i \in 1..(Len(df) - 1) : df[i].Volume >= df[i + 1].Volume}

RatioThresholds == {[num |-> 0, den |-> 1], [num |-> 1, den |-> 1],
                    [num |-> 2, den |-> 1], [num |-> 51, den |-> 2]}

DiffThresholds == {0, 1000, 2400}

InitDetect ==
    /\ FetchIdle
    /\ InitPipeline
    /\ CallIdle
    /\ CacheIdle
    /\ new_df \in DetectNewFrames
    /\ old_df \in DetectFrames
    /\ ratio_thr \in RatioThresholds
    /\ diff_thr \in DiffThresholds
    /\ unusual_df = <<>>
    /\ det_pc = "ready"

\* unusual_df = find_unusual_volume(new_df, old_df, ratio_thr, diff_thr)
Detect ==
    /\ det_pc = "ready"
    /\ LET unusual == Unusual(new_df, old_df, ratio_thr, diff_thr)
       IN  unusual_df' \in {SortedUnusual(unusual, ties) : ties \in TieOrders}
    /\ det_pc' = "done"
    /\ UNCHANGED <<new_df, old_df, ratio_thr, diff_thr, fetchVars, pipeVars, callVars, cacheVars>>

NextDetect == Detect

SpecDetect == InitDetect /\ [][NextDetect]_vars

----------------------------------------------------------------------------
(* The detector followed by the alert sink, as both call sites have them:  *)
(* up to MaxAlertRows contracts, each with previous volume 100 and a       *)
(* current volume that is unchanged or flagged at the default thresholds.  *)

\* most contracts of the frames handed to detector and alert sink
MaxAlertRows == 6

AlertVolumes == {100, 2500, 5000}

AlertContract(i, volume) ==
    [Symbol |-> "AAPL", Type |-> "Call", Expiry |-> "2024-01-19",
     Strike |-> 100 + 5 * i, Volume |-> volume, Bid |-> "1.00", Ask |-> "1.10",
     current_price |-> "185.00"]

\* the frames fetch_options_data returns for these contracts
AlertNewFrames ==
    UNION {{SortValuesDesc([i \in 1..k |-> AlertContract(i, v[i])], "Volume", ties) :
                v \in [1..k -> AlertVolumes], ties \in TieOrders} :
           k \in 0..MaxAlertRows}

\* the stored rows of the same contracts
AlertOldFrame(k) == [i \in 1..k |-> AlertContract(i, 100)]

InitAlert ==
    /\ InitPipeline /\ FetchIdle /\ CallIdle /\ CacheIdle
    /\ new_df \in AlertNewFrames
    /\ old_df \in {AlertOldFrame(k) : k \in 0..MaxAlertRows}
    /\ Len(old_df) = Len(new_df)
    /\ ratio_thr = DefaultRatioThr
    /\ diff_thr = DefaultDiffThr
    /\ unusual_df = <<>>
    /\ det_pc = "ready"

\* lines 239-240 after the detector returned
SchedulerAlert ==
    /\ det_pc = "done"
    /\ alert_log' = SchedulerAlerts(alert_log, unusual_df)
    /\ det_pc' = "scheduler"
    /\ UNCHANGED <<new_df, old_df, ratio_thr, diff_thr, unusual_df, fetchVars,
                   callVars, cacheVars, clock, store, scheduler_running, bg, fg>>

\* line 365 after the detector returned
ManualAlert ==
    /\ det_pc = "done"
    /\ alert_log' = ManualAlerts(alert_log, unusual_df)
    /\ det_pc' = "manual"
    /\ UNCHANGED <<new_df, old_df, ratio_thr, diff_thr, unusual_df, fetchVars,
                   callVars, cacheVars, clock, store, scheduler_running, bg, fg>>

NextAlert == Detect \/ SchedulerAlert \/ ManualAlert

SpecAlert == InitAlert /\ [][NextAlert]_vars

----------------------------------------------------------------------------
(* The snapshot builder on its own: one call of fetch_options_data(SYMBOLS) *)
(* against each source behaviour of FetchEnvs.                              *)

InitFetch ==
    /\ DetectIdle /\ InitPipeline /\ CallIdle /\ CacheIdle
    /\ fetch_env \in FetchEnvs
    /\ fetch_df = <<>>
    /\ fetch_warnings = <<>>
    /\ fetch_pc = "ready"

\* df = fetch_options_data(SYMBOLS)
Fetch ==
    /\ fetch_pc = "ready"
    /\ \E ties \in TieOrders :
          LET r == fetch_options_data(SYMBOLS, fetch_env, ties)
          IN  fetch_df' = r.df /\ fetch_warnings' = r.warnings
    /\ fetch_pc' = "done"
    /\ UNCHANGED <<fetch_env, detVars, pipeVars, callVars, cacheVars>>

NextFetch == Fetch

SpecFetch == InitFetch /\ [][NextFetch]_vars

----------------------------------------------------------------------------
(* Properties of find_unusual_volume, stated without its definitions *)

KeysIn(df) == {KeyOf(df[i]) : i \in 1..Len(df)}

UniqueKeys(df) == \A i, j \in 1..Len(df) : KeyOf(df[i]) = KeyOf(df[j]) => i = j

\* the volume a frame with unique keys records for key k, 0 when k is missing
VolumeAt(df, k) ==
    IF k \in KeysIn(df) THEN (CHOOSE r \in Range(df) : KeyOf(r) = k).Volume ELSE 0

\* ratio >= ratio_thr for volumes cur and prev: cur / prev when prev > 0,
\* +infinity otherwise
RatioPasses(cur, prev, thr) == prev > 0 => cur * thr.den >= thr.num * prev

ExpectedKeys(new, old, r_thr, d_thr) ==
    {k \in KeysIn(new) \cup KeysIn(old) :
        /\ RatioPasses(VolumeAt(new, k), VolumeAt(old, k), r_thr)
        /\ VolumeAt(new, k) - VolumeAt(old, k) >= d_thr}

\* C1: for two non-empty frames with unique contract keys the result holds
\* exactly the contracts of the key union with ratio >= ratio_thr AND
\* delta >= diff_thr, each once, with delta = current - previous (a missing
\* side counted as 0) and ratio = current / previous, +infinity when the
\* previous volume is 0.
C1_ExactlyBothThresholds ==
    (/\ det_pc = "done"
     /\ new_df # <<>> /\ old_df # <<>>
     /\ UniqueKeys(new_df) /\ UniqueKeys(old_df))
    => /\ KeysIn(unusual_df) = ExpectedKeys(new_df, old_df, ratio_thr, diff_thr)
       /\ UniqueKeys(unusual_df)
       /\ \A i \in 1..Len(unusual_df) :
            LET u == unusual_df[i]
                cur == VolumeAt(new_df, KeyOf(u))
                prev == VolumeAt(old_df, KeyOf(u))
            IN  /\ u.Volume = cur /\ u.Volume_old = prev
                /\ u.Volume_Diff = cur - prev
                /\ u.Volume_Ratio.inf = (prev = 0)
                /\ prev > 0 => u.Volume_Ratio.num * prev = cur * u.Volume_Ratio.den

\* 100 -> 2500 at thresholds (2.0, 1000) is flagged with ratio 25, delta 2400
C1_Witness ==
    /\ det_pc = "done"
    /\ Len(new_df) = 1 /\ Len(old_df) = 1
    /\ KeyOf(new_df[1]) = KeyOf(old_df[1])
    /\ new_df[1].Volume = 2500 /\ old_df[1].Volume = 100
    /\ ratio_thr = [num |-> 2, den |-> 1] /\ diff_thr = 1000
    /\ Len(unusual_df) = 1
    /\ unusual_df[1].Volume_Diff = 2400
    /\ unusual_df[1].Volume_Ratio.num = 25 * unusual_df[1].Volume_Ratio.den

RatioAtLeastOne(thr) == thr.num >= thr.den

\* C2 as stated: identical frames give an empty result for every r >= 1
\* and every d >= 0.
C2_IdenticalAlwaysEmpty ==
    (/\ det_pc = "done"
     /\ new_df = old_df
     /\ RatioAtLeastOne(ratio_thr) /\ diff_thr >= 0)
    => unusual_df = <<>>

\* C2 amended: identical frames with unique contract keys give an empty
\* result for every r >= 1 and every d > 0, and for d = 0 when r > 1 and
\* every row's volume is positive.
C2_IdenticalEmptyAmended ==
    (/\ det_pc = "done"
     /\ new_df = old_df
     /\ UniqueKeys(new_df)
     /\ RatioAtLeastOne(ratio_thr)
     /\ \/ diff_thr > 0
        \/ /\ diff_thr = 0
           /\ ratio_thr.num > ratio_thr.den
           /\ \A i \in 1..Len(new_df) : new_df[i].Volume > 0)
    => unusual_df = <<>>

C2_Witness ==
    /\ det_pc = "done"
    /\ new_df = old_df
    /\ Len(new_df) = 2 /\ UniqueKeys(new_df)
    /\ new_df[1].Volume = 2500
    /\ diff_thr = 0 /\ ratio_thr = [num |-> 2, den |-> 1]
    /\ unusual_df = <<>>

\* row i of new_df is a contract with positive volume that old lacks
NewOnly(i) == new_df[i].Volume > 0 /\ KeyOf(new_df[i]) \notin KeysIn(old_df)

\* the result has a record of new_df's row i with ratio infinity, delta V
IncludedAsNew(i) ==
    \E j \in 1..Len(unusual_df) :
        /\ KeyOf(unusual_df[j]) = KeyOf(new_df[i])
        /\ unusual_df[j].Volume = new_df[i].Volume
        /\ unusual_df[j].Volume_old = 0
        /\ unusual_df[j].Volume_Diff = new_df[i].Volume
        /\ unusual_df[j].Volume_Ratio.inf

\* C3 as stated: a contract only in the current frame with volume V > 0 is
\* included iff V >= diff_thr, for every previous frame that lacks it, a
\* previous frame without rows included.
C3_NewContractAnyPrevious ==
    det_pc = "done"
    => \A i \in 1..Len(new_df) :
          NewOnly(i) => (IncludedAsNew(i) <=> new_df[i].Volume >= diff_thr)

\* C3 amended: a contract only in the current frame with volume V > 0 gets
\* ratio infinity and delta V and is included iff V >= diff_thr, for every
\* finite ratio threshold and every NON-EMPTY previous frame that lacks it.
C3_NewContractNonEmptyPrevious ==
    (det_pc = "done" /\ old_df # <<>>)
    => \A i \in 1..Len(new_df) :
          NewOnly(i) =>
            /\ IncludedAsNew(i) <=> new_df[i].Volume >= diff_thr
            /\ \A j \in 1..Len(unusual_df) :
                 KeyOf(unusual_df[j]) = KeyOf(new_df[i])
                 => unusual_df[j].Volume_Ratio.inf /\ unusual_df[j].Volume_old = 0

C3_Witness ==
    /\ det_pc = "done"
    /\ old_df # <<>>
    /\ ratio_thr = [num |-> 51, den |-> 2] /\ diff_thr = 1000
    /\ \E i \in 1..Len(new_df) :
          NewOnly(i) /\ new_df[i].Volume = 2500 /\ IncludedAsNew(i)

----------------------------------------------------------------------------
(* Properties of fetch_options_data *)

\* the symbols whose processing raised: price lookup, expiry listing, or
\* some expiry's option chain
FailingSymbols(env) ==
    {s \in SymbolSet :
        \/ CurrentPrice(env[s]) = "raise"
        \/ env[s].options_raise
        \/ \E i \in 1..Len(env[s].chains) : env[s].chains[i].raises}

\* C9: a symbol whose fetch fails at any point produces exactly one warning
\* and contributes no rows to the snapshot, and every other symbol is still
\* fetched (its chains' rows are all in the snapshot).
C9_FailedSymbolSkipped ==
    fetch_pc = "done"
    => LET failing == FailingSymbols(fetch_env)
       IN  /\ Range(fetch_warnings) = failing
           /\ Len(fetch_warnings) = Cardinality(failing)
           /\ \A i \in 1..Len(fetch_df) : fetch_df[i].Symbol \notin failing
           /\ \A s \in SymbolSet \ failing :
                \A e \in 1..Len(fetch_env[s].expiries) :
                   Len(SelectSeq(fetch_df, LAMBDA r : r.Symbol = s
                                   /\ r.Expiry = fetch_env[s].expiries[e]))
                   = Len(fetch_env[s].chains[e].calls) + Len(fetch_env[s].chains[e].puts)

----------------------------------------------------------------------------
(* Properties of the scheduler, the store and the pipelines *)

\* the background_fetch_job loops of the process
Loops == {s \in Sessions : bg[s].pc # "none"}

\* C4: after any sequence of start_scheduler calls, from one or several
\* sessions, at most one background_fetch_job loop exists in the process.
C4_AtMostOneLoop == Cardinality(Loops) <= 1

\* the locals of a pipeline step that reads the store
Reads(l, l2) == l.pc \in {"latest", "load"} /\ l2 # l

\* the locals of a pipeline step whose store_snapshot completed
Appends(l, l2) == l.pc = "store" /\ l2.pc = "detect"

\* get_all_snapshots after the step ends with the rows of l's frame, each
\* under l's now_str
AllRowsAdded(l) ==
    LET before == get_all_snapshots(store)
        after == get_all_snapshots(store')
        df == l.new_snapshot_df
    IN  /\ Len(after) = Len(before) + Len(df)
        /\ \A i \in 1..Len(df) :
              after[Len(before) + i] =
                [snapshot_time |-> l.now_str, Symbol |-> df[i].Symbol,
                 Type |-> df[i].Type, Expiry |-> df[i].Expiry,
                 Strike |-> df[i].Strike, Volume |-> df[i].Volume,
                 Bid |-> df[i].Bid, Ask |-> df[i].Ask,
                 current_price |-> df[i].current_price]

\* C5: the store is append-only under every interleaving of the manual
\* fetch and the scheduler: every row get_all_snapshots returned is returned
\* unchanged later, no read changes the store, and every store_snapshot of
\* a non-empty snapshot that completes adds all of that snapshot's rows.
C5_AppendOnly ==
    [][/\ Len(store') >= Len(store)
       /\ SubSeq(get_all_snapshots(store'), 1, Len(store)) = get_all_snapshots(store)
       /\ \A s \in Sessions : Reads(bg[s], bg'[s]) => store' = store
       /\ Reads(fg, fg') => store' = store
       /\ \A s \in Sessions : Appends(bg[s], bg'[s]) => AllRowsAdded(bg[s])
       /\ Appends(fg, fg') => AllRowsAdded(fg)]_vars

\* both writers held a frame for the store and both appends completed
C5_Witness ==
    /\ Len(store) = 2
    /\ fg.pc = "detect"
    /\ \E s \in Sessions : bg[s].pc = "detect"

\* C6: appending an empty snapshot is a no-op and not an error: it changes
\* neither get_latest_snapshot_time nor get_all_snapshots.
C6_EmptyAppendNoOp ==
    (call.op = "store_snapshot" /\ call.df = <<>>)
    => /\ ~call.raised
       /\ get_latest_snapshot_time(store) = get_latest_snapshot_time(call.before)
       /\ get_all_snapshots(store) = get_all_snapshots(call.before)

C6_Witness ==
    /\ call.op = "store_snapshot" /\ call.df = <<>>
    /\ Len(appended) = 2
    /\ get_latest_snapshot_time(store) = Strftime(10)

RECURSIVE MaxAt(_)
\* the latest second of a non-empty sequence of appends
MaxAt(apps) ==
    IF Len(apps) = 1 THEN apps[1].at
    ELSE LET m == MaxAt(Tail(apps))
         IN  IF Head(apps).at > m THEN Head(apps).at ELSE m

\* the rows appended at second t, in the order of the appends
AppendedAt(t) ==
    Flatten([i \in 1..Len(appended) |->
                IF appended[i].at = t THEN appended[i].df ELSE <<>>])

\* C7: after any sequence of appends get_latest_snapshot_time returns the
\* greatest timestamp among the appended snapshots, or none (<<>>) when the
\* store is empty; get_snapshot_data(t) returns exactly the rows appended
\* under t, and an empty result for a timestamp never appended.
C7_LatestAndRowsAt ==
    /\ get_latest_snapshot_time(store) =
          (IF appended = <<>> THEN <<>> ELSE Strftime(MaxAt(appended)))
    /\ \A t \in CallTimes :
          get_snapshot_data(store, Strftime(t)) = AppendedAt(t)

\* the later snapshot was appended first
C7_Witness ==
    /\ Len(appended) = 2
    /\ appended[1].at = 10 /\ appended[2].at = 9
    /\ get_latest_snapshot_time(store) = Strftime(10)
    /\ get_snapshot_data(store, Strftime(8)) = <<>>

\* C8: a failure inside a scheduler cycle never terminates
\* background_fetch_job: the thread never ends, a cycle that raised is at
\* the loop's sleep, and whatever the outcome of a cycle the next cycle
\* eventually begins (a started loop is at the start of a cycle again and
\* again).
C8_LoopSurvivesFailure ==
    /\ [](\A s \in Sessions : /\ bg[s].pc # "dead"
                               /\ bg[s].error => bg[s].pc = "sleep")
    /\ \A s \in Sessions : []<>(bg[s].pc \in {"none", "fetch"})

\* a cycle failed after its snapshot was fetched; the loop is at its sleep
C8_Witness ==
    \E s \in Sessions : bg[s].pc = "sleep" /\ bg[s].error /\ store # <<>>

\* a step of the locals l that runs the detector without a baseline
DetectsWithoutBaseline(l, l2) ==
    l.pc = "detect" /\ l2.pc # "detect" /\ l.old_df = <<>>

\* no entry that raises an alert is added to the log in this step
NoAlertAdded ==
    \A i \in (Len(alert_log) + 1)..Len(alert_log') : ~alert_log'[i].alert

\* C10: if either input frame of find_unusual_volume is empty the result
\* is empty; so a pipeline run that found the store empty (no baseline)
\* flags nothing and the scheduler forwards nothing to the alert sink,
\* whatever the volumes of the new snapshot.
C10_EmptyInputEmptyResult ==
    /\ \A df \in DetectFrames, r \in RatioThresholds, d \in DiffThresholds,
          ties \in TieOrders :
          /\ find_unusual_volume(df, <<>>, r, d, ties) = <<>>
          /\ find_unusual_volume(<<>>, df, r, d, ties) = <<>>
    /\ [][/\ \A s \in Sessions :
               DetectsWithoutBaseline(bg[s], bg'[s]) => alert_log' = alert_log
          /\ DetectsWithoutBaseline(fg, fg') => NoAlertAdded]_vars

\* a scheduler's first run stored a snapshot of volume 2500; no alert
C10_Witness ==
    /\ Len(store) = 1 /\ store[1].volume = 2500
    /\ alert_log = <<>>
    /\ fg.pc = "idle"
    /\ \E s \in Sessions : bg[s].pc = "sleep" /\ ~bg[s].error

----------------------------------------------------------------------------
(* Properties of the result cache *)

\* a step in which call site c's fetch_options_data(SYMBOLS) returns
CallReturns(c) == caller[c].pc = "cleared" /\ caller'[c].pc = "idle"

\* a last fetch exists and less than the window has elapsed since
StillValid == last_fetch # <<>> /\ clock - last_fetch.time < CacheTtl

----------------------------------------------------------------------------
(* Further properties of find_unusual_volume *)

\* the place of contract k in the outer join of new_df and old_df
JoinPos(k) ==
    LET merged == Merge(new_df, old_df)
    IN  CHOOSE i \in 1..Len(merged) : KeyOf(merged[i]) = k

\* C12: the result of find_unusual_volume is sorted by Volume_Diff
\* descending, and records of equal Volume_Diff are in the order the join
\* has them (frames with unique contract keys, where that order is the
\* order of the contracts in the join).
C12_SortedStable ==
    (det_pc = "done" /\ UniqueKeys(new_df) /\ UniqueKeys(old_df))
    => \A i, j \in 1..Len(unusual_df) :
          i < j =>
            /\ unusual_df[i].Volume_Diff >= unusual_df[j].Volume_Diff
            /\ unusual_df[i].Volume_Diff = unusual_df[j].Volume_Diff
               => JoinPos(KeyOf(unusual_df[i])) < JoinPos(KeyOf(unusual_df[j]))

----------------------------------------------------------------------------
(* Further properties of the pipelines and the store *)

\* the timestamps recorded in the store
StoredTimes == {store[i].snapshot_time : i \in 1..Len(store)}

\* C13: in every reachable store state the rows recorded under one
\* snapshot_time have pairwise different contract keys (symbol, type,
\* expiry, strike): get_snapshot_data(t) never returns two rows with the
\* same key, also when the manual fetch and the background cycle both
\* append.  Stated for the runs with at most one background loop.
C13_UniqueKeyPerSnapshot ==
    Cardinality(Loops) <= 1
    => \A t \in StoredTimes : UniqueKeys(get_snapshot_data(store, t))

\* the append of the run with locals l uses a timestamp greater than every
\* timestamp already in the store
FreshTimestamp(l) == \A t \in StoredTimes : StrLess(t, l.now_str)

\* C14: every non-empty append, by the background cycle or the manual
\* fetch, in any interleaving, uses a timestamp greater than every
\* timestamp already in the store (timestamps increase across appends, the
\* rows under one timestamp are those of one snapshot).  Stated for the
\* runs with at most one background loop.
C14_FreshIncreasingTimestamp ==
    [][Cardinality(Loops) <= 1
       => /\ \A s \in Sessions : Appends(bg[s], bg'[s]) => FreshTimestamp(bg[s])
          /\ Appends(fg, fg') => FreshTimestamp(fg)]_vars

\* the baseline the run with locals l holds when it appends is the store's
\* latest snapshot at that moment, and not a snapshot under the run's own
\* timestamp
BaselineIsLatest(l) ==
    /\ l.old_time = get_latest_snapshot_time(store)
    /\ l.old_df = get_snapshot_data(store, l.old_time)
    /\ l.old_time # l.now_str

\* C15: in each pipeline run with a non-empty new snapshot the baseline
\* looked up and loaded before the append is the snapshot that immediately
\* precedes the new one in the store: at the moment of the append it is
\* the store's latest snapshot, never older and never the new snapshot's
\* own timestamp, also when the manual fetch runs concurrently with the
\* background cycle.  Stated for the runs with at most one background loop.
C15_BaselineIsPredecessor ==
    [][Cardinality(Loops) <= 1
       => /\ \A s \in Sessions : Appends(bg[s], bg'[s]) => BaselineIsLatest(bg[s])
          /\ Appends(fg, fg') => BaselineIsLatest(fg)]_vars

\* a step in which the cycle of session s gets an empty frame from
\* fetch_options_data (a cycle that goes on holds its non-empty frame)
BuildsEmpty(s) ==
    /\ bg[s].pc = "fetch" /\ bg'[s].pc # "fetch"
    /\ ~bg'[s].error
    /\ bg'[s].new_snapshot_df = <<>>

\* C16: when the snapshot built in a scheduler cycle is empty the cycle
\* skips storage, detection and alerting: its next step is the loop's
\* sleep, the store is unchanged (no timestamp is added) and the alert
\* sink is not invoked.
C16_EmptyCycleSkips ==
    [][\A s \in Sessions :
          BuildsEmpty(s) => /\ bg'[s].pc = "sleep"
                            /\ store' = store
                            /\ alert_log' = alert_log]_vars

\* a cycle ended without an error and nothing was ever stored or alerted:
\* its snapshot was empty
C16_Witness ==
    /\ store = <<>> /\ alert_log = <<>>
    /\ fg.pc = "idle"
    /\ \E s \in Sessions : bg[s].pc = "sleep" /\ ~bg[s].error

----------------------------------------------------------------------------
(* Further properties of fetch_options_data *)

\* the source lists at least one contract for the symbol
HasContracts(src) ==
    \E e \in 1..Len(src.expiries) :
        Len(src.chains[e].calls) + Len(src.chains[e].puts) > 0

\* C17 as stated: whenever at least one symbol is processed without
\* raising an error the returned snapshot has at least one row (it is
\* empty only if every symbol failed).
C17_EmptyOnlyIfAllFailed ==
    (fetch_pc = "done" /\ FailingSymbols(fetch_env) # SymbolSet)
    => fetch_df # <<>>

\* C17 amended: whenever at least one symbol is processed without raising
\* an error and has at least one contract in its option chains, the
\* returned snapshot has at least one row.
C17_EmptyOnlyIfNoContracts ==
    (/\ fetch_pc = "done"
     /\ \E s \in SymbolSet \ FailingSymbols(fetch_env) : HasContracts(fetch_env[s]))
    => fetch_df # <<>>

\* all symbols fail but the last of SYMBOLS, whose rows are the snapshot
C17_Witness ==
    /\ fetch_pc = "done"
    /\ FailingSymbols(fetch_env) = SymbolSet \ {"GOOGL"}
    /\ HasContracts(fetch_env["GOOGL"])
    /\ Len(fetch_warnings) = 8
    /\ fetch_df # <<>>
    /\ \A i \in 1..Len(fetch_df) : fetch_df[i].Symbol = "GOOGL"

----------------------------------------------------------------------------
(* Properties of the scheduler's flag and of the alert sink *)

\* a background loop has been started in the process and is alive
LoopAlive == \E s \in Sessions : bg[s].pc \notin {"none", "dead"}

\* C18: in every reachable state the running flag, as any session reads it,
\* is set if and only if a background loop has been started and is still
\* alive (the state is Running exactly while the flag is set; it never
\* goes back to Idle).
C18_FlagIffLoopAlive ==
    \A s \in Sessions : scheduler_running[s] <=> LoopAlive

\* the rows of df whose Volume_Diff is at least v
AtLeast(df, v) == Len(SelectSeq(df, LAMBDA r : r.Volume_Diff >= v))

\* table holds the 5 records of df with the greatest Volume_Diff, or all
\* of df when it has fewer
IsTopFive(table, df) ==
    /\ Len(table) = (IF Len(df) < 5 THEN Len(df) ELSE 5)
    /\ Range(table) \subseteq Range(df)
    /\ \A i \in 1..Len(df) :
          LET n == AtLeast(df, df[i].Volume_Diff)
          IN  AtLeast(table, df[i].Volume_Diff) = (IF n < 5 THEN n ELSE 5)

\* C19: on an empty unusual-volume table send_alerts raises no alert; on a
\* non-empty one it raises one alert with the top 5 records by delta; the
\* scheduler does not call send_alerts at all for an empty detector
\* result.
C19_AlertTopFive ==
    /\ det_pc = "scheduler" =>
          IF unusual_df = <<>> THEN alert_log = <<>>
          ELSE /\ Len(alert_log) = 1
               /\ alert_log[1].alert
               /\ IsTopFive(alert_log[1].table, unusual_df)
    /\ det_pc = "manual" =>
          /\ Len(alert_log) = 1
          /\ alert_log[1].alert <=> unusual_df # <<>>
          /\ IsTopFive(alert_log[1].table, unusual_df)

\* six records are flagged; the alert shows five and leaves out one of the
\* smaller delta
C19_Witness ==
    /\ det_pc = "scheduler"
    /\ Len(unusual_df) = 6
    /\ Len(alert_log) = 1 /\ alert_log[1].alert
    /\ Len(alert_log[1].table) = 5
    /\ alert_log[1].table[1].Volume_Diff = 4900
    /\ unusual_df[6].Volume_Diff = 2400

----------------------------------------------------------------------------
(* Only rises are flagged *)

\* C20: for every delta threshold d > 0 and every ratio threshold each
\* record of the result is a contract of the current frame whose current
\* volume is at least its previous volume (0 when the previous frame lacks
\* it) plus d: a contract whose volume fell or stayed equal, and a
\* contract only in the previous frame, is never flagged.
C20_OnlyRisesFlagged ==
    (det_pc = "done" /\ diff_thr > 0)
    => \A i \in 1..Len(unusual_df) :
          LET u == unusual_df[i]
          IN  /\ u.Volume >= u.Volume_old + diff_thr
              /\ \E n \in 1..Len(new_df) :
                    KeyOf(new_df[n]) = KeyOf(u) /\ new_df[n].Volume = u.Volume
              /\ IF KeyOf(u) \in KeysIn(old_df)
                 THEN \E o \in 1..Len(old_df) :
                         KeyOf(old_df[o]) = KeyOf(u) /\ old_df[o].Volume = u.Volume_old
                 ELSE u.Volume_old = 0

\* with ratio threshold 0 a rise is flagged and a contract of volume 2500
\* that is only in the previous frame is not
C20_Witness ==
    /\ det_pc = "done"
    /\ ratio_thr = [num |-> 0, den |-> 1] /\ diff_thr = 1000
    /\ Len(unusual_df) = 1
    /\ unusual_df[1].Volume_Diff = 2400
    /\ \E o \in 1..Len(old_df) :
          KeyOf(old_df[o]) \notin KeysIn(new_df) /\ old_df[o].Volume = 2500

====
